---- MODULE Spec2Model ----
(***************************************************************************)
(* Label renderer and order handler of the Shopify PDF label backend.      *)
(*                                                                         *)
(* Numbers.  The program computes in IEEE doubles; the model computes in   *)
(* fixed point.  Every length and every font size is an integer number of  *)
(* hundredths of a point, and every division rounds down.  A text is a run *)
(* of one character, [ch, n]; its width is the sum of the glyph advances   *)
(* (thousandths of an em) times the font size, as PDFKit measures it.      *)
(***************************************************************************)
EXTENDS Integers, Sequences, FiniteSets, TLC

(***************************************************************************)
(* Bounds of the model.                                                    *)
(***************************************************************************)
\* longest text, in characters
MaxLen == 48
\* most page breaks the layout engine asks for while one text is drawn
MaxPageBreaks == 2
\* most line items of an order, and the largest quantity of a line item
MaxLineItems == 2
MaxQuantity == 2

(***************************************************************************)
(* Program constants.                                                      *)
(***************************************************************************)
PDF_WIDTH_MM == 270
PDF_HEIGHT_MM == 66
TEXT_MAX_WIDTH_MM == 260
TEXT_MAX_HEIGHT_MM == 54
\* 2.834645669 pt/mm, kept to five decimals: hundredths of a point per metre
MM_TO_PT == 283465
\* 0.73, in hundredths
VISIBLE_HEIGHT_RATIO == 73
\* for (let i = 0; i < 15; i++)
SIZING_ITERATIONS == 15
\* Math.max(20, Math.min(optimalSize, 800)), in hundredths of a point
MIN_FONT_SIZE == 2000
MAX_FONT_SIZE == 80000
\* measuredTextHeight * 0.35, in hundredths
BASELINE_FACTOR == 35
\* const margin = 2, in hundredths of a point
BASELINE_MARGIN == 200

Max(a, b) == IF a >= b THEN a ELSE b
Min(a, b) == IF a <= b THEN a ELSE b
Abs(a) == IF a >= 0 THEN a ELSE 0 - a

MmToPt(mm) == (mm * MM_TO_PT) \div 1000

PDF_WIDTH_PT == MmToPt(PDF_WIDTH_MM)
PDF_HEIGHT_PT == MmToPt(PDF_HEIGHT_MM)
TEXT_WIDTH_PT == MmToPt(TEXT_MAX_WIDTH_MM)
TEXT_HEIGHT_PT == MmToPt(TEXT_MAX_HEIGHT_MM)

(***************************************************************************)
(* Text and fonts.                                                         *)
(***************************************************************************)
FallbackFont == "Helvetica-Bold"
PrimaryFont == "Impact"
Fonts == {PrimaryFont, FallbackFont}

Chars == {"i", "W", " "}
Texts == [ch : Chars, n : 0..MaxLen]

\* String.prototype.toUpperCase on the characters of the model
UpperChar(c) == IF c = "i" THEN "I" ELSE c
ToUpperCase(t) == [ch |-> UpperChar(t.ch), n |-> t.n]

\* advance width of one glyph in thousandths of an em, as the font reports it
\* to widthOfString: Helvetica-Bold from its AFM table, Impact as representative
\* values of a condensed face with a wide W and a narrow space
GlyphAdvance(font, c) ==
    IF font = FallbackFont
    THEN CASE c = "I" -> 278 [] c = "i" -> 278 [] c = "W" -> 944 [] c = " " -> 278
           [] OTHER -> 556
    ELSE CASE c = "I" -> 295 [] c = "i" -> 277 [] c = "W" -> 835 [] c = " " -> 176
           [] OTHER -> 500

TextAdvance(font, t) == t.n * GlyphAdvance(font, t.ch)

\* doc.currentLineHeight(true) over the font size, in thousandths
LineHeightRatio(font) == IF font = FallbackFont THEN 1190 ELSE 1220

\* doc.fontSize(s); doc.widthOfString(text)
measureWidth(font, t, fontSizePt) == (fontSizePt * TextAdvance(font, t)) \div 1000

getVisibleHeight(fontSizePt) == (fontSizePt * VISIBLE_HEIGHT_RATIO) \div 100

\* doc.heightOfString(text): one line of text at the current line height
heightOfString(font, t, fontSizePt) == (fontSizePt * LineHeightRatio(font)) \div 1000

(***************************************************************************)
(* Font resolution (generateLabelPDF, the inner try/catch).                *)
(***************************************************************************)
NoPath == "none"
PathNames == {"env", "cwd", "dirname", "vartask"}

\* [IMPACT_FONT_PATH, cwd/fonts, __dirname/../fonts, /var/task/fonts].filter(Boolean)
candidatePaths(envSet) ==
    IF envSet THEN <<"env", "cwd", "dirname", "vartask">>
    ELSE <<"cwd", "dirname", "vartask">>

\* for (const p of candidatePaths) if (existsSync(p)) { impactPath = p; break; }
FirstExisting(paths, existing) ==
    LET hits == {i \in 1..Len(paths) : paths[i] \in existing}
    IN IF hits = {} THEN NoPath
       ELSE paths[CHOOSE i \in hits : \A j \in hits : i <= j]

\* the catch block logs the failure but keeps 'Impact' as the font to use
ResolveFontKeepsImpact(envSet, existing, registerThrows) ==
    LET impactPath == FirstExisting(candidatePaths(envSet), existing)
        failed == impactPath = NoPath \/ registerThrows
    IN [ impactPath |-> impactPath,
         registered |-> ~failed,
         registerThrew |-> (impactPath # NoPath /\ registerThrows),
         fontToUse |-> PrimaryFont,
         warnings |-> IF failed THEN <<"Impact font load failed">> ELSE << >> ]

ResolveFont(envSet, existing, registerThrows) ==
    LET impactPath == FirstExisting(candidatePaths(envSet), existing)
        failed == impactPath = NoPath \/ registerThrows
    IN [ impactPath |-> impactPath,
         registered |-> ~failed,
         registerThrew |-> (impactPath # NoPath /\ registerThrows),
         fontToUse |-> IF failed THEN FallbackFont ELSE PrimaryFont,
         warnings |-> IF failed THEN <<"Impact font load failed">> ELSE << >> ]

\* doc.font(name) opens the font: a standard font always opens, a registered
\* file opens only if it is a readable font file
FontOpenThrows(fnt, fileValid) ==
    fnt.fontToUse = PrimaryFont /\ (~fnt.registered \/ ~fileValid)

(***************************************************************************)
(* The sizing loop.                                                        *)
(***************************************************************************)
\* the candidate size taken as the text-area height, the ratio forgotten
CandidateSizeNoRatio == TEXT_HEIGHT_PT

\* let optimalSize = TEXT_HEIGHT_PT / VISIBLE_HEIGHT_RATIO
CandidateSize == (TEXT_HEIGHT_PT * 100) \div VISIBLE_HEIGHT_RATIO

\* the loop started from the configuration's font size, as far as it fits the height
StartSizeFromHint(c) ==
    IF c.fontSizePt > 0 THEN Min(c.fontSizePt * 100, CandidateSize) ELSE CandidateSize

\* the size the loop starts from, whatever the configuration
StartSize(c) == CandidateSize

ScaleToWidth(size, testWidth) == (size * TEXT_WIDTH_PT) \div testWidth

\* the clamp without its lower limit
ClampSizeNoFloor(size) == Min(size, MAX_FONT_SIZE)

ClampSize(size) == Max(MIN_FONT_SIZE, Min(size, MAX_FONT_SIZE))

\* one iteration of the loop body
SizingStep(font, t, size) ==
    LET testWidth == measureWidth(font, t, size)
        testVisibleHeight == getVisibleHeight(size)
        s1 == IF testWidth > TEXT_WIDTH_PT THEN ScaleToWidth(size, testWidth) ELSE size
        s2 == IF testVisibleHeight > TEXT_HEIGHT_PT THEN CandidateSize ELSE s1
    IN ClampSize(s2)

(***************************************************************************)
(* Positioning.                                                            *)
(***************************************************************************)
\* the horizontal padding not halved
TextAreaXNotHalved == PDF_WIDTH_PT - TEXT_WIDTH_PT

TextAreaX == (PDF_WIDTH_PT - TEXT_WIDTH_PT) \div 2
TextAreaY == (PDF_HEIGHT_PT - TEXT_HEIGHT_PT) \div 2

TextX(textAreaX, finalWidth) ==
    LET textAreaCenterX == textAreaX + TEXT_WIDTH_PT \div 2
    IN textAreaCenterX - finalWidth \div 2

\* the offset added to the centre instead of subtracted
BaselineYBelowCentre(textAreaY, measuredTextHeight) ==
    LET textAreaCenterY == textAreaY + TEXT_HEIGHT_PT \div 2
    IN textAreaCenterY + (measuredTextHeight * BASELINE_FACTOR) \div 100

BaselineY(textAreaY, measuredTextHeight) ==
    LET textAreaCenterY == textAreaY + TEXT_HEIGHT_PT \div 2
    IN textAreaCenterY - (measuredTextHeight * BASELINE_FACTOR) \div 100

SafeBaselineY(textAreaY, measuredTextHeight) ==
    LET minBaselineY == textAreaY + BASELINE_MARGIN
        maxBaselineY == textAreaY + TEXT_HEIGHT_PT - measuredTextHeight + BASELINE_MARGIN
    IN Max(minBaselineY, Min(BaselineY(textAreaY, measuredTextHeight), maxBaselineY))

\* the position computed from the width at the candidate size
LayoutFromCandidateWidth(font, t, area, finalSize) ==
    LET finalWidth == measureWidth(font, t, CandidateSize)
        measuredTextHeight == heightOfString(font, t, finalSize)
    IN [ finalSize |-> finalSize,
         finalWidth |-> finalWidth,
         finalVisibleHeight |-> getVisibleHeight(finalSize),
         textX |-> TextX(area.x, finalWidth),
         measuredTextHeight |-> measuredTextHeight,
         baselineY |-> BaselineY(area.y, measuredTextHeight),
         safeBaselineY |-> SafeBaselineY(area.y, measuredTextHeight) ]

\* the final measurements and the position, from the final size
Layout(font, t, area, finalSize) ==
    LET finalWidth == measureWidth(font, t, finalSize)
        measuredTextHeight == heightOfString(font, t, finalSize)
    IN [ finalSize |-> finalSize,
         finalWidth |-> finalWidth,
         finalVisibleHeight |-> getVisibleHeight(finalSize),
         textX |-> TextX(area.x, finalWidth),
         measuredTextHeight |-> measuredTextHeight,
         baselineY |-> BaselineY(area.y, measuredTextHeight),
         safeBaselineY |-> SafeBaselineY(area.y, measuredTextHeight) ]

NoLayout ==
    [ finalSize |-> 0, finalWidth |-> 0, finalVisibleHeight |-> 0, textX |-> 0,
      measuredTextHeight |-> 0, baselineY |-> 0, safeBaselineY |-> 0 ]

(***************************************************************************)
(* The document (PDFKit) as far as the renderer uses it.                   *)
(***************************************************************************)
\* a document that comes with a digit already drawn in a left column
NewDocumentWithColumn ==
    [ size |-> <<PDF_WIDTH_PT, PDF_HEIGHT_PT>>, pages |-> 1, addPage |-> "original",
      breakRequests |-> 0,
      draws |-> << [ text |-> [ch |-> "1", n |-> 1], x |-> 0, y |-> PDF_HEIGHT_PT \div 2,
                     font |-> FallbackFont, size |-> MIN_FONT_SIZE ] >>,
      ended |-> FALSE ]

\* new PDFDocument({size, autoFirstPage: true, margins: 0})
NewDocument ==
    [ size |-> <<PDF_WIDTH_PT, PDF_HEIGHT_PT>>, pages |-> 1, addPage |-> "original",
      breakRequests |-> 0, draws |-> << >>, ended |-> FALSE ]

\* the page-adding operation left in place
SuppressAddPageSkipped(d) == d

\* doc.addPage = function() { return this; }
SuppressAddPage(d) == [d EXCEPT !.addPage = "noop"]

\* doc.addPage = originalAddPage
RestoreAddPage(d) == [d EXCEPT !.addPage = "original"]

\* doc.text(text, x, y): the call is recorded, and each of the k page breaks
\* the line wrapper asks for goes through doc.addPage
DocText(d, call, k) ==
    [d EXCEPT !.draws = Append(@, call),
              !.breakRequests = k,
              !.pages = IF d.addPage = "original" THEN @ + k ELSE @]

\* what the document writes to its stream, chunk by chunk
DocOutput(d) ==
    << [kind |-> "header", size |-> d.size],
       [kind |-> "pages", pages |-> d.pages, draws |-> d.draws],
       [kind |-> "trailer"] >>

\* the promise resolved from the first 'data' event
EndEmittedEarly(d, ch) == Len(ch) >= 1

\* the stream emits 'end' after doc.end(), once every chunk has been emitted
EndEmitted(d, ch) == d.ended /\ Len(ch) = Len(DocOutput(d))

(***************************************************************************)
(* generateLabelPDF as one function: what a call that runs to its end      *)
(* returns, given the configuration, the process environment and the       *)
(* number k of page breaks the line wrapper asks for.                      *)
(***************************************************************************)
RECURSIVE SizingLoop(_, _, _, _)
SizingLoop(fontName, t, size, i) ==
    IF i = SIZING_ITERATIONS THEN size
    ELSE LET next == SizingStep(fontName, t, size)
         IN \* an iteration that leaves the size alone is followed by iterations
            \* that do the same: the size after all of them is this one
            IF next = size THEN size ELSE SizingLoop(fontName, t, next, i + 1)

Pending == [state |-> "pending", value |-> << >>]
Rejected(why) == [state |-> "rejected", value |-> <<why>>]
Resolved(buffer) == [state |-> "resolved", value |-> buffer]

\* the document of a call at the return of doc.end(), the font having opened
EndedDocument(c, e, k) ==
    LET fnt == ResolveFont(e.envSet, e.existing, e.registerThrows)
        t == ToUpperCase(c.text)
        lay == Layout(fnt.fontToUse, t, [x |-> TextAreaX, y |-> TextAreaY],
                      SizingLoop(fnt.fontToUse, t, StartSize(c), 0))
        call == [ text |-> t, x |-> lay.textX, y |-> lay.safeBaselineY,
                  font |-> fnt.fontToUse, size |-> lay.finalSize ]
    IN [RestoreAddPage(DocText(SuppressAddPage(NewDocument), call, k)) EXCEPT !.ended = TRUE]

generateLabelPDF(c, e, k) ==
    IF FontOpenThrows(ResolveFont(e.envSet, e.existing, e.registerThrows), e.fileValid)
    THEN Rejected("font")
    ELSE Resolved(DocOutput(EndedDocument(c, e, k)))

(***************************************************************************)
(* Orders and label configurations.                                        *)
(***************************************************************************)
NoText == [ch |-> "i", n |-> 0]

\* a LabelConfig before any attribute is read; a missing field and an empty
\* one are both falsy and the code treats them alike everywhere, so they are
\* modelled alike: a text of length 0, a configId "", a line-item quantity 0
EmptyConfig ==
    [ text |-> NoText, fontSizePt |-> 0, fontFamily |-> "", color |-> "",
      quantity |-> 1, configId |-> "" ]

\* the attributes of a line item, {key, value}: the label text, and the
\* configuration id
TextAttr(t) == [key |-> "label_text", text |-> t, str |-> ""]
IdAttr(v) == [key |-> "label_config_id", text |-> NoText, str |-> v]
SizeAttr(v) == [key |-> "label_font_size_pt", text |-> NoText, str |-> v]
AttrLists ==
    { << >>,
      << TextAttr([ch |-> "i", n |-> 2]), SizeAttr("40") >>,
      << IdAttr("a"), SizeAttr("big"), TextAttr([ch |-> "W", n |-> 3]) >>,
      << TextAttr(NoText), IdAttr("b") >>,
      << TextAttr([ch |-> " ", n |-> 2]), IdAttr("c") >> }

\* a missing or zero quantity, or the largest one
LineItems == [quantity : {0, MaxQuantity}, attrs : AttrLists]
LineItemLists == UNION { [1..m -> LineItems] : m \in 0..MaxLineItems }
Orders ==
    { [ name |-> "#1001", created_at |-> "2024-05-01T10:00:00Z",
        hasLineItems |-> TRUE, line_items |-> items ] : items \in LineItemLists }
    \cup { [ name |-> "#1001", created_at |-> "2024-05-01T10:00:00Z",
             hasLineItems |-> FALSE, line_items |-> << >> ] }

\* parseFloat on the attribute values of the model, 0 standing for NaN
ParseFloat(str) == CASE str = "40" -> 40 [] str = "156" -> 156 [] OTHER -> 0

\* parseFloat(value) || 156
FontSizeOfAttr(str) == IF ParseFloat(str) = 0 THEN 156 ELSE ParseFloat(str)

\* switch (key) { case 'label_text': ...; case 'label_config_id': ... }
ApplyAttr(config, attr) ==
    CASE attr.key = "label_text" -> [config EXCEPT !.text = attr.text]
      [] attr.key = "label_font_size_pt" ->
            [config EXCEPT !.fontSizePt = FontSizeOfAttr(attr.str)]
      [] attr.key = "label_config_id" -> [config EXCEPT !.configId = attr.str]
      [] OTHER -> config

RECURSIVE ApplyAttrs(_, _, _)
ApplyAttrs(config, attrs, k) ==
    IF k > Len(attrs) THEN config
    ELSE ApplyAttrs(ApplyAttr(config, attrs[k]), attrs, k + 1)

\* const config = { quantity: lineItem.quantity || 1 }; for (const attr of attributes) ...
ConfigOfLineItem(lineItem) ==
    ApplyAttrs([EmptyConfig EXCEPT !.quantity =
                    IF lineItem.quantity = 0 THEN 1 ELSE lineItem.quantity],
               lineItem.attrs, 1)

extractLabelConfigs(o) ==
    IF ~o.hasLineItems THEN << >>
    ELSE LET all == [k \in 1..Len(o.line_items) |-> ConfigOfLineItem(o.line_items[k])]
             HasText(c) == c.text.n > 0
         IN SelectSeq(all, HasText)

\* sanitizePathName on the order names of the model
sanitizePathName(name) == IF name = "#1001" THEN "1001" ELSE name

\* `${root}/${date}/${orderName}`
FolderPath(o, e) ==
    << IF e.rootPath = "" THEN "/Labels" ELSE e.rootPath,
       IF o.created_at = "2024-05-01T10:00:00Z" THEN "2024-05-01" ELSE o.created_at,
       sanitizePathName(o.name) >>

\* one copy per configuration, the quantity ignored
CopiesOfOne(c) == Max(1, 1)

\* const qty = Math.max(1, cfg.quantity || 1)
CopiesOf(c) == Max(1, IF c.quantity = 0 THEN 1 ELSE c.quantity)

\* `label-${cfg.configId || 'cfg'}-${i}.pdf`
Filename(c, i) == <<"label-", IF c.configId = "" THEN "cfg" ELSE c.configId, "-", i, ".pdf">>

\* `${folderPath}/${f.filename}`
FilePath(folderPath, filename) == <<folderPath, "/", filename>>

(***************************************************************************)
(* The process environment.                                                *)
(***************************************************************************)
\* the font files and the settings a render or an upload reads
FontEnvs ==
    [ envSet : BOOLEAN, existing : SUBSET PathNames, registerThrows : BOOLEAN,
      fileValid : BOOLEAN, accessToken : {TRUE}, fetch : {TRUE}, rootPath : {""},
      refreshToken : {FALSE}, appKey : {FALSE}, appSecret : {FALSE},
      webhookSecret : {""} ]
BaseEnv ==
    [ envSet |-> FALSE, existing |-> {"cwd"}, registerThrows |-> FALSE,
      fileValid |-> TRUE, accessToken |-> TRUE, fetch |-> TRUE, rootPath |-> "",
      refreshToken |-> FALSE, appKey |-> FALSE, appSecret |-> FALSE,
      webhookSecret |-> "" ]

\* DROPBOX_REFRESH_TOKEN, DROPBOX_APP_KEY and DROPBOX_APP_SECRET set and
\* DROPBOX_ACCESS_TOKEN removed
RefreshOnlyEnv ==
    [BaseEnv EXCEPT !.accessToken = FALSE, !.refreshToken = TRUE, !.appKey = TRUE,
                    !.appSecret = TRUE]
OrderEnvs ==
    { BaseEnv,
      [BaseEnv EXCEPT !.existing = {}],
      [BaseEnv EXCEPT !.fileValid = FALSE],
      RefreshOnlyEnv,
      [BaseEnv EXCEPT !.fetch = FALSE] }

VARIABLES
    env,         \* process.env and the font files
    pc,          \* position of the generateLabelPDF call
    cfg,         \* its LabelConfig
    doc,         \* its PDFDocument
    area,        \* textAreaX, textAreaY
    font,        \* result of the font resolution
    warnings,    \* console.warn lines of the call
    text,        \* config.text upper-cased
    optimalSize, \* loop variable of the sizing loop
    iter,        \* i of the sizing loop
    layout,      \* final measurements and position
    chunks,      \* chunks collected by the 'data' handler
    promise,     \* the promise returned by the call
    previous,    \* what the call before this one computed, if there was one
    order,       \* the order handed to handleOrderPaid
    hpc,         \* position of the handleOrderPaid call
    labelConfigs,\* its label configurations
    cfgIdx,      \* index of the configuration being rendered
    copyIdx,     \* i of the copy loop
    renderCalls, \* the generateLabelPDF calls made, as <<configuration index, i>>
    pdfs,        \* the {filename, buffer} list
    uploaded,    \* paths uploaded by uploadPDFsToDropbox
    dropbox,     \* the Dropbox account: folder calls and files stored
    hresult,     \* the promise returned by handleOrderPaid
    cpc,         \* position of the handleOrderCreated call
    tasks,       \* its per-configuration render tasks
    cresult,     \* the promise returned by handleOrderCreated
    now,         \* Date.now(), in milliseconds
    cachedAccessToken, \* the cached Dropbox access token
    tokenExpiresAt,    \* its expiry, in milliseconds
    apc,         \* position of each getDropboxAccessToken call
    refreshRequests,   \* the token requests sent to Dropbox so far
    returned,    \* what each caller's last getDropboxAccessToken call returned
    req,         \* the request received by a webhook handler
    wpc,         \* position of the webhook handler
    rawBody,     \* the raw body it verifies and parses
    responses    \* the responses it sent, as status codes

renderVars == <<pc, cfg, doc, area, font, warnings, text, optimalSize, iter, layout,
                chunks, promise, previous>>
orderVars == <<order, hpc, labelConfigs, cfgIdx, copyIdx, renderCalls, pdfs, uploaded,
               dropbox, hresult>>
vars == <<env, pc, cfg, doc, area, font, warnings, text, optimalSize, iter, layout,
          chunks, promise, previous, order, hpc, labelConfigs, cfgIdx, copyIdx, renderCalls,
          pdfs, uploaded, dropbox, hresult, cpc, tasks, cresult, now,
          cachedAccessToken, tokenExpiresAt, apc, refreshRequests, returned,
          req, wpc, rawBody, responses>>
createdVars == <<cpc, tasks, cresult>>
authVars == <<now, cachedAccessToken, tokenExpiresAt, apc, refreshRequests, returned>>
webVars == <<req, wpc, rawBody, responses>>

NoFont ==
    [ impactPath |-> NoPath, registered |-> FALSE, registerThrew |-> FALSE,
      fontToUse |-> PrimaryFont, warnings |-> << >> ]

RenderConfigs == { [EmptyConfig EXCEPT !.text = t] : t \in Texts }

\* the font sizes a configuration can carry: none, a parsed one, the default
FontSizes == {0, 40, 156}
SizedConfigs == { [c EXCEPT !.fontSizePt = h] : c \in RenderConfigs, h \in FontSizes }

NoCall ==
    [ made |-> FALSE, cfg |-> EmptyConfig, size |-> <<0, 0>>, font |-> "",
      layout |-> NoLayout, state |-> "pending" ]

NoOrder ==
    [ name |-> "#1001", created_at |-> "2024-05-01T10:00:00Z", hasLineItems |-> FALSE,
      line_items |-> << >> ]
\* the Dropbox account and the calls made to it: the filesCreateFolderV2
\* calls, the folders created, the paths of the filesUpload calls, the files
\* stored, the console.warn lines of the folder creation
NoDropbox ==
    [folderCalls |-> 0, folders |-> {}, uploadCalls |-> << >>, files |-> << >>,
     warnings |-> 0]

RenderIdle ==
    /\ pc = "idle"
    /\ cfg = EmptyConfig
    /\ doc = NewDocument
    /\ area = [x |-> 0, y |-> 0]
    /\ font = NoFont
    /\ warnings = << >>
    /\ text = NoText
    /\ optimalSize = 0
    /\ iter = 0
    /\ layout = NoLayout
    /\ chunks = << >>
    /\ promise = Pending
    /\ previous = NoCall

OrderIdle ==
    /\ hpc = "idle"
    /\ labelConfigs = << >>
    /\ cfgIdx = 0
    /\ copyIdx = 0
    /\ renderCalls = << >>
    /\ pdfs = << >>
    /\ uploaded = << >>
    /\ dropbox = NoDropbox
    /\ hresult = Pending

CreatedIdle ==
    /\ cpc = "idle"
    /\ tasks = << >>
    /\ cresult = Pending

\* the callers of getDropboxAccessToken
Callers == {"a", "b"}

\* null, the token of the n-th refresh request, the manual token
NoToken == << >>
RefreshedToken(n) == <<"refreshed", n>>
ManualToken == <<"DROPBOX_ACCESS_TOKEN">>

\* a call that is not running; a call waiting for the answer to its refresh
\* request, with what it read from the cache before sending it
NotCalling == [pc |-> "idle", request |-> 0, hadToken |-> FALSE, left |-> 0]

\* the outcome of a call: the token or the error, whether the call sent a
\* refresh request, and what the cache held when the call read it: a token
\* or none, and the time left to the recorded expiry
NoReturn ==
    [kind |-> "none", token |-> NoToken, requested |-> FALSE, hadToken |-> FALSE,
     left |-> 0]

\* let cachedAccessToken = null; let tokenExpiresAt = 0; the clock counts from
\* the start of the process
AuthIdle ==
    /\ now = 0
    /\ cachedAccessToken = NoToken
    /\ tokenExpiresAt = 0
    /\ apc = [p \in Callers |-> NotCalling]
    /\ refreshRequests = 0
    /\ returned = [p \in Callers |-> NoReturn]

(***************************************************************************)
(* Webhook requests and their signatures.                                  *)
(***************************************************************************)
\* SHOPIFY_WEBHOOK_SECRET: unset, a secret, the secret with white space
\* around it, white space only
Secrets == {"", "shpss", " shpss ", " "}

\* String.prototype.trim on the secrets of the model
Trim(str) == CASE str = " shpss " -> "shpss" [] str = " " -> "" [] OTHER -> str

\* the orders a request body holds: one label in two copies, and no label
LabelOrder ==
    [ name |-> "#1001", created_at |-> "2024-05-01T10:00:00Z", hasLineItems |-> TRUE,
      line_items |-> << [quantity |-> MaxQuantity,
                         attrs |-> << TextAttr([ch |-> "i", n |-> 2]), IdAttr("a") >>] >> ]
WebOrders == {LabelOrder, NoOrder}

\* a raw body: the JSON text of an order, or a text that is not JSON
NotJson == [json |-> FALSE, order |-> NoOrder]
Bodies == { [json |-> TRUE, order |-> o] : o \in WebOrders } \cup {NotJson}

\* the length of a base64 SHA-256 digest
DIGEST_LENGTH == 44

\* createHmac('sha256', secret).update(rawBody).digest('base64'): a text of
\* 44 characters that two different pairs of key and message do not share
Digest(secret, body) == [len |-> DIGEST_LENGTH, key |-> secret, msg |-> body]

\* the x-shopify-hmac-sha256 header: missing or empty, a text that is not as
\* long as a digest, or the digest someone computed with some key for some body
NoHeader == [len |-> 0, key |-> "", msg |-> NotJson]
ShortSignature == [len |-> 3, key |-> "", msg |-> NotJson]
Headers == {NoHeader, ShortSignature} \cup { Digest(k, b) : k \in Secrets, b \in Bodies }

\* equal whenever the lengths agree
TimingSafeEqualLengthOnly(a, b) == IF a.len # b.len THEN "throws" ELSE "true"

\* crypto.timingSafeEqual(Buffer.from(a), Buffer.from(b)): a RangeError when
\* the byte lengths differ
TimingSafeEqual(a, b) ==
    IF a.len # b.len THEN "throws" ELSE IF a = b THEN "true" ELSE "false"

\* verifyHmac of api/order-paid.ts
verifyHmac(body, secret, hmacHeader) ==
    IF hmacHeader = NoHeader THEN FALSE
    ELSE TimingSafeEqual(Digest(secret, body), hmacHeader) = "true"

\* verifyShopifyHmac of the Express server: "true", "false", or "throws"
verifyShopifyHmac(r, e) ==
    IF e.webhookSecret = "" THEN "false"
    ELSE IF r.header = NoHeader THEN "false"
    ELSE IF r.bodyForm # "buffer" THEN "throws"
    ELSE TimingSafeEqual(Digest(e.webhookSecret, r.body), r.header)

\* the requests: to the function of api/order-paid.ts, whose req.body is a
\* string, a Buffer or not usable (the body is then read from the stream);
\* to the POST route of the Express server, whose req.body is the Buffer of
\* express.raw or, for another content type, an object
Requests ==
    [ handler : {"api"}, method : {"POST", "GET"}, bodyForm : {"string", "buffer", "stream"},
      body : Bodies, header : Headers ]
    \cup [ handler : {"express"}, method : {"POST"}, bodyForm : {"buffer", "object"},
           body : Bodies, header : Headers ]

NoRequest ==
    [ handler |-> "", method |-> "", bodyForm |-> "", body |-> NotJson,
      header |-> NoHeader ]

WebIdle ==
    /\ req = NoRequest
    /\ wpc = "idle"
    /\ rawBody = << >>
    /\ responses = << >>

\* one generateLabelPDF call in some environment
Init ==
    /\ env \in FontEnvs
    /\ order = NoOrder
    /\ RenderIdle
    /\ OrderIdle
    /\ CreatedIdle
    /\ AuthIdle
    /\ WebIdle

\* the text-area origin kept across the calls and advanced by each of them
TextAreaFromLastCall == [x |-> area.x + TextAreaX, y |-> area.y + TextAreaY]

\* const textAreaX = ...; const textAreaY = ...
TextArea == [x |-> TextAreaX, y |-> TextAreaY]

\* generateLabelPDF, from the call to the start of the sizing loop, for a
\* configuration among configs
StartWith(configs) ==
    /\ \E c \in configs :
         LET fnt == ResolveFont(env.envSet, env.existing, env.registerThrows)
         IN /\ cfg' = c
            /\ doc' = NewDocument
            /\ chunks' = << >>
            /\ area' = TextArea
            /\ font' = fnt
            /\ warnings' = fnt.warnings
            /\ text' = ToUpperCase(c.text)
            /\ layout' = NoLayout
            /\ iter' = 0
            /\ IF FontOpenThrows(fnt, env.fileValid)
               THEN /\ pc' = "done"
                    /\ optimalSize' = 0
                    /\ promise' = Rejected("font")
               ELSE /\ pc' = "sizing"
                    /\ optimalSize' = StartSize(c)
                    /\ promise' = Pending
    /\ UNCHANGED <<env, orderVars, createdVars, authVars, webVars>>

Start ==
    /\ pc = "idle"
    /\ hpc = "idle"
    /\ StartWith(RenderConfigs)
    /\ UNCHANGED previous

\* one iteration of the sizing loop
SizingIteration ==
    /\ pc = "sizing"
    /\ iter < SIZING_ITERATIONS
    /\ optimalSize' = SizingStep(font.fontToUse, text, optimalSize)
    /\ iter' = iter + 1
    /\ UNCHANGED <<pc, cfg, doc, area, font, warnings, text, layout, chunks, promise>>
    /\ UNCHANGED <<env, previous, orderVars, createdVars, authVars, webVars>>

\* final measurements and positioning
Measure ==
    /\ pc = "sizing"
    /\ iter = SIZING_ITERATIONS
    /\ layout' = Layout(font.fontToUse, text, area, optimalSize)
    /\ pc' = "suppress"
    /\ UNCHANGED <<cfg, doc, area, font, warnings, text, optimalSize, iter, chunks, promise>>
    /\ UNCHANGED <<env, previous, orderVars, createdVars, authVars, webVars>>

\* doc.switchToPage(0); the page-adding operation is replaced
Suppress ==
    /\ pc = "suppress"
    /\ doc' = SuppressAddPage(doc)
    /\ pc' = "draw"
    /\ UNCHANGED <<cfg, area, font, warnings, text, optimalSize, iter, layout, chunks, promise>>
    /\ UNCHANGED <<env, previous, orderVars, createdVars, authVars, webVars>>

\* doc.text(text, textX, safeBaselineY)
Draw ==
    /\ pc = "draw"
    /\ \E k \in 0..MaxPageBreaks :
         doc' = DocText(doc,
                        [ text |-> text, x |-> layout.textX, y |-> layout.safeBaselineY,
                          font |-> font.fontToUse, size |-> layout.finalSize ],
                        k)
    /\ pc' = "restore"
    /\ UNCHANGED <<cfg, area, font, warnings, text, optimalSize, iter, layout, chunks, promise>>
    /\ UNCHANGED <<env, previous, orderVars, createdVars, authVars, webVars>>

Restore ==
    /\ pc = "restore"
    /\ doc' = RestoreAddPage(doc)
    /\ pc' = "end"
    /\ UNCHANGED <<cfg, area, font, warnings, text, optimalSize, iter, layout, chunks, promise>>
    /\ UNCHANGED <<env, previous, orderVars, createdVars, authVars, webVars>>

\* doc.end()
DocEnd ==
    /\ pc = "end"
    /\ doc' = [doc EXCEPT !.ended = TRUE]
    /\ pc' = "flush"
    /\ UNCHANGED <<cfg, area, font, warnings, text, optimalSize, iter, layout, chunks, promise>>
    /\ UNCHANGED <<env, previous, orderVars, createdVars, authVars, webVars>>

\* doc.on('data', (chunk) => chunks.push(chunk))
OnData ==
    /\ pc = "flush"
    /\ Len(chunks) < Len(DocOutput(doc))
    /\ chunks' = Append(chunks, DocOutput(doc)[Len(chunks) + 1])
    /\ UNCHANGED <<pc, cfg, doc, area, font, warnings, text, optimalSize, iter, layout, promise>>
    /\ UNCHANGED <<env, previous, orderVars, createdVars, authVars, webVars>>

\* doc.on('end', () => resolve(Buffer.concat(chunks)))
OnEnd ==
    /\ pc = "flush"
    /\ EndEmitted(doc, chunks)
    /\ promise' = Resolved(chunks)
    /\ pc' = "done"
    /\ UNCHANGED <<cfg, doc, area, font, warnings, text, optimalSize, iter, layout, chunks>>
    /\ UNCHANGED <<env, previous, orderVars, createdVars, authVars, webVars>>

Next ==
    \/ Start
    \/ SizingIteration
    \/ Measure
    \/ Suppress
    \/ Draw
    \/ Restore
    \/ DocEnd
    \/ OnData
    \/ OnEnd

Spec == Init /\ [][Next]_vars

(***************************************************************************)
(* Two generateLabelPDF calls of one process, one after the other: the     *)
(* second is made with the configuration of the first, or with one that    *)
(* differs from it in fontSizePt only.                                     *)
(***************************************************************************)
TwiceEnvs == { e \in FontEnvs : ~e.envSet /\ e.existing \in {{}, {"cwd"}} }

InitTwice ==
    /\ env \in TwiceEnvs
    /\ order = NoOrder
    /\ RenderIdle
    /\ OrderIdle
    /\ CreatedIdle
    /\ AuthIdle
    /\ WebIdle

CallFirst ==
    /\ pc = "idle"
    /\ hpc = "idle"
    /\ StartWith(SizedConfigs)
    /\ UNCHANGED previous

CallAgain ==
    /\ pc = "done"
    /\ ~previous.made
    /\ previous' = [ made |-> TRUE, cfg |-> cfg, size |-> doc.size,
                     font |-> font.fontToUse, layout |-> layout,
                     state |-> promise.state ]
    /\ StartWith({ [cfg EXCEPT !.fontSizePt = h] : h \in FontSizes })

NextTwice ==
    \/ CallFirst
    \/ CallAgain
    \/ SizingIteration
    \/ Measure
    \/ Suppress
    \/ Draw
    \/ Restore
    \/ DocEnd
    \/ OnData
    \/ OnEnd

SpecTwice == InitTwice /\ [][NextTwice]_vars

(***************************************************************************)
(* handleOrderPaid.                                                        *)
(***************************************************************************)
\* one handleOrderPaid call for some order in some environment
InitOrder ==
    /\ env \in OrderEnvs
    /\ order \in Orders
    /\ RenderIdle
    /\ OrderIdle
    /\ CreatedIdle
    /\ AuthIdle
    /\ WebIdle

\* handleOrderPaid without the early return for an order without labels
HandleOrderPaidNoEarlyReturn ==
    /\ hpc = "idle"
    /\ labelConfigs' = extractLabelConfigs(order)
    /\ hpc' = IF Len(labelConfigs') = 0 THEN "upload" ELSE "render"
    /\ cfgIdx' = 1
    /\ copyIdx' = 1
    /\ UNCHANGED hresult
    /\ UNCHANGED <<env, renderVars, createdVars, authVars, webVars, order, renderCalls, pdfs,
                   uploaded, dropbox>>

\* handleOrderPaid, from the call to the start of the render loops
HandleOrderPaid ==
    /\ hpc = "idle"
    /\ labelConfigs' = extractLabelConfigs(order)
    /\ IF Len(labelConfigs') = 0
       THEN /\ hpc' = "done"
            /\ hresult' = Resolved([folderPath |-> FolderPath(order, env), files |-> << >>])
            /\ UNCHANGED <<cfgIdx, copyIdx>>
       ELSE /\ hpc' = "render"
            /\ cfgIdx' = 1
            /\ copyIdx' = 1
            /\ UNCHANGED hresult
    /\ UNCHANGED <<env, renderVars, createdVars, authVars, webVars, order, renderCalls, pdfs,
                   uploaded, dropbox>>

\* a rejected render skipped and the loops carried on to the upload
RenderCopySkippingRejected ==
    /\ hpc = "render"
    /\ LET c == labelConfigs[cfgIdx]
           qty == CopiesOf(c)
       IN \E k \in 0..MaxPageBreaks :
            LET out == generateLabelPDF(c, env, k)
            IN /\ renderCalls' = Append(renderCalls, <<cfgIdx, copyIdx>>)
               /\ pdfs' = IF out.state = "rejected" THEN pdfs
                          ELSE Append(pdfs, [filename |-> Filename(c, copyIdx),
                                             buffer |-> out.value])
               /\ UNCHANGED hresult
               /\ IF copyIdx + 1 <= qty
                  THEN /\ copyIdx' = copyIdx + 1
                       /\ UNCHANGED <<cfgIdx, hpc>>
                  ELSE /\ copyIdx' = 1
                       /\ cfgIdx' = cfgIdx + 1
                       /\ hpc' = IF cfgIdx = Len(labelConfigs)
                                 THEN "upload" ELSE "render"
    /\ UNCHANGED <<env, renderVars, createdVars, authVars, webVars, order, labelConfigs,
                   uploaded, dropbox>>

\* const buffer = await generateLabelPDF(cfg); pdfs.push({ filename, buffer })
RenderCopy ==
    /\ hpc = "render"
    /\ LET c == labelConfigs[cfgIdx]
           qty == CopiesOf(c)
       IN \E k \in 0..MaxPageBreaks :
            LET out == generateLabelPDF(c, env, k)
            IN /\ renderCalls' = Append(renderCalls, <<cfgIdx, copyIdx>>)
               /\ IF out.state = "rejected"
                  THEN /\ hpc' = "done"
                       /\ hresult' = out
                       /\ UNCHANGED <<pdfs, cfgIdx, copyIdx>>
                  ELSE /\ pdfs' = Append(pdfs, [filename |-> Filename(c, copyIdx),
                                                buffer |-> out.value])
                       /\ UNCHANGED hresult
                       /\ IF copyIdx + 1 <= qty
                          THEN /\ copyIdx' = copyIdx + 1
                               /\ UNCHANGED <<cfgIdx, hpc>>
                          ELSE /\ copyIdx' = 1
                               /\ cfgIdx' = cfgIdx + 1
                               /\ hpc' = IF cfgIdx = Len(labelConfigs)
                                         THEN "upload" ELSE "render"
    /\ UNCHANGED <<env, renderVars, createdVars, authVars, webVars, order, labelConfigs,
                   uploaded, dropbox>>

\* uploadPDFsToDropbox, up to the Dropbox client
UploadBegin ==
    /\ hpc = "upload"
    /\ IF ~env.accessToken
       THEN /\ hpc' = "done"
            /\ hresult' = Rejected("DROPBOX_ACCESS_TOKEN not set")
       ELSE IF ~env.fetch
       THEN /\ hpc' = "done"
            /\ hresult' = Rejected("Global fetch not available")
       ELSE /\ hpc' = "folder"
            /\ UNCHANGED hresult
    /\ UNCHANGED <<env, renderVars, createdVars, authVars, webVars, order, labelConfigs,
                   cfgIdx, copyIdx, renderCalls, pdfs, uploaded, dropbox>>

\* a folder creation whose errors, other than the conflict, end the upload
CreateFolderAborting ==
    /\ hpc = "folder"
    /\ \E outcome \in {"ok", "conflict", "error"} :
         /\ dropbox' = [dropbox EXCEPT
                           !.folderCalls = @ + 1,
                           !.folders = IF outcome = "ok"
                                       THEN @ \cup {FolderPath(order, env)} ELSE @]
         /\ IF outcome = "error"
            THEN hpc' = "done" /\ hresult' = Rejected("Dropbox upload failed")
            ELSE hpc' = "files" /\ UNCHANGED hresult
    /\ UNCHANGED <<env, renderVars, createdVars, authVars, webVars, order, labelConfigs,
                   cfgIdx, copyIdx, renderCalls, pdfs, uploaded>>

\* try { await dbx.filesCreateFolderV2(...) } catch (e) { ... }
CreateFolder ==
    /\ hpc = "folder"
    /\ \E outcome \in {"ok", "conflict", "error"} :
         dropbox' = [dropbox EXCEPT
                        !.folderCalls = @ + 1,
                        !.folders = IF outcome = "ok"
                                    THEN @ \cup {FolderPath(order, env)} ELSE @,
                        !.warnings = IF outcome = "error" THEN @ + 1 ELSE @]
    /\ hpc' = "files"
    /\ UNCHANGED <<env, renderVars, createdVars, authVars, webVars, order, labelConfigs,
                   cfgIdx, copyIdx, renderCalls, pdfs, uploaded, hresult>>

\* a failed upload followed by the removal of the files uploaded before it
UploadFileRollingBack ==
    /\ hpc = "files"
    /\ Len(uploaded) < Len(pdfs)
    /\ LET f == pdfs[Len(uploaded) + 1]
           path == FilePath(FolderPath(order, env), f.filename)
       IN \E ok \in BOOLEAN :
            IF ok
            THEN /\ dropbox' = [dropbox EXCEPT
                                   !.uploadCalls = Append(@, path),
                                   !.files = Append(@, [path |-> path, contents |-> f.buffer])]
                 /\ uploaded' = Append(uploaded, path)
                 /\ UNCHANGED <<hpc, hresult>>
            ELSE /\ hpc' = "done"
                 /\ hresult' = Rejected("Dropbox upload failed")
                 /\ dropbox' = [dropbox EXCEPT !.uploadCalls = Append(@, path),
                                               !.files = << >>]
                 /\ UNCHANGED uploaded
    /\ UNCHANGED <<env, renderVars, createdVars, authVars, webVars, order, labelConfigs,
                   cfgIdx, copyIdx, renderCalls, pdfs>>

\* await dbx.filesUpload({ path, contents: f.buffer, mode: add }); uploaded.push(path)
UploadFile ==
    /\ hpc = "files"
    /\ Len(uploaded) < Len(pdfs)
    /\ LET f == pdfs[Len(uploaded) + 1]
           path == FilePath(FolderPath(order, env), f.filename)
       IN \E ok \in BOOLEAN :
            IF ok
            THEN /\ dropbox' = [dropbox EXCEPT
                                   !.uploadCalls = Append(@, path),
                                   !.files = Append(@, [path |-> path, contents |-> f.buffer])]
                 /\ uploaded' = Append(uploaded, path)
                 /\ UNCHANGED <<hpc, hresult>>
            ELSE /\ hpc' = "done"
                 /\ hresult' = Rejected("Dropbox upload failed")
                 /\ dropbox' = [dropbox EXCEPT !.uploadCalls = Append(@, path)]
                 /\ UNCHANGED uploaded
    /\ UNCHANGED <<env, renderVars, createdVars, authVars, webVars, order, labelConfigs,
                   cfgIdx, copyIdx, renderCalls, pdfs>>

\* return uploaded; return { folderPath, files }
UploadReturn ==
    /\ hpc = "files"
    /\ Len(uploaded) = Len(pdfs)
    /\ hpc' = "done"
    /\ hresult' = Resolved([folderPath |-> FolderPath(order, env), files |-> uploaded])
    /\ UNCHANGED <<env, renderVars, createdVars, authVars, webVars, order, labelConfigs,
                   cfgIdx, copyIdx, renderCalls, pdfs, uploaded, dropbox>>

NextOrder ==
    \/ HandleOrderPaid
    \/ RenderCopy
    \/ UploadBegin
    \/ CreateFolder
    \/ UploadFile
    \/ UploadReturn

SpecOrder == InitOrder /\ [][NextOrder]_vars

(***************************************************************************)
(* handleOrderCreated: one render task per configuration, all started      *)
(* before any is awaited (Promise.all).  The part of a generateLabelPDF    *)
(* call up to doc.end() runs without interruption; the 'data' and 'end'    *)
(* events of the documents, and the next calls of the tasks, interleave in *)
(* any order.                                                              *)
(***************************************************************************)
\* the attribute lists of a label with a visible text
PrintableAttrLists ==
    { l \in AttrLists :
        \E k \in 1..Len(l) :
            l[k].key = "label_text" /\ l[k].text.n > 0 /\ l[k].text.ch # " " }

\* the orders all of whose line items are such labels
CreatedOrders ==
    { o \in Orders :
        /\ o.hasLineItems
        /\ \A j \in 1..Len(o.line_items) : o.line_items[j].attrs \in PrintableAttrLists }

CreatedEnvs ==
    { BaseEnv, [BaseEnv EXCEPT !.existing = {}], [BaseEnv EXCEPT !.fileValid = FALSE] }

\* async (config, index) => { const pdfs = []; for (let i = 0; ...
NewTask(c) ==
    [ cfg |-> c, i |-> 0, pc |-> "loop", doc |-> NewDocument, chunks |-> << >>,
      promise |-> Pending, pdfs |-> << >> ]

\* one chunk list shared by all the calls
PushChunkShared(all, j, chunk) ==
    [m \in DOMAIN all |-> [all[m] EXCEPT !.chunks = Append(@, chunk)]]

\* chunks.push(chunk), on the list of the call that owns the document
PushChunk(all, j, chunk) == [all EXCEPT ![j].chunks = Append(@, chunk)]

InitCreated ==
    /\ env \in CreatedEnvs
    /\ order \in CreatedOrders
    /\ RenderIdle
    /\ OrderIdle
    /\ CreatedIdle
    /\ AuthIdle
    /\ WebIdle

\* handleOrderCreated, up to the tasks made by labelConfigs.map
HandleOrderCreated ==
    /\ cpc = "idle"
    /\ labelConfigs' = extractLabelConfigs(order)
    /\ IF Len(labelConfigs') = 0
       THEN /\ cpc' = "done"
            /\ cresult' = Resolved(<< >>)
            /\ UNCHANGED tasks
       ELSE /\ cpc' = "running"
            /\ tasks' = [j \in 1..Len(labelConfigs') |-> NewTask(labelConfigs'[j])]
            /\ UNCHANGED cresult
    /\ UNCHANGED <<env, renderVars, authVars, webVars, order, hpc, cfgIdx, copyIdx, renderCalls,
                   pdfs, uploaded, dropbox, hresult>>

\* the loop test of a task and, if it holds, the generateLabelPDF call up to
\* doc.end(); a rejected call throws out of the task and rejects Promise.all.
\* Of the page breaks asked for while the text was drawn the task keeps what
\* they did to the document, not their number.
TaskCall(j) ==
    /\ tasks[j].pc = "loop"
    /\ LET t == tasks[j]
       IN IF t.i >= t.cfg.quantity
          THEN /\ tasks' = [tasks EXCEPT ![j].pc = "returned"]
               /\ UNCHANGED <<cpc, cresult>>
          ELSE IF generateLabelPDF(t.cfg, env, 0).state = "rejected"
          THEN /\ tasks' = [tasks EXCEPT ![j].pc = "thrown",
                                         ![j].promise = Rejected("font")]
               /\ cpc' = "done"
               /\ cresult' = IF cresult.state = "pending" THEN Rejected("font")
                             ELSE cresult
          ELSE /\ \E k \in 0..MaxPageBreaks :
                    tasks' = [tasks EXCEPT ![j].pc = "flush",
                                           ![j].doc = [EndedDocument(t.cfg, env, k)
                                                         EXCEPT !.breakRequests = 0],
                                           ![j].chunks = << >>,
                                           ![j].promise = Pending]
               /\ UNCHANGED <<cpc, cresult>>
    /\ UNCHANGED <<env, renderVars, authVars, webVars, orderVars>>

\* a 'data' event of the document of task j
TaskData(j) ==
    /\ tasks[j].pc = "flush"
    /\ Len(tasks[j].chunks) < Len(DocOutput(tasks[j].doc))
    /\ tasks' = PushChunk(tasks, j, DocOutput(tasks[j].doc)[Len(tasks[j].chunks) + 1])
    /\ UNCHANGED <<env, renderVars, authVars, webVars, orderVars, cpc, cresult>>

\* the 'end' event of the document of task j: the promise resolves and the
\* task goes on: pdfs.push(pdf); i++
TaskEnd(j) ==
    /\ tasks[j].pc = "flush"
    /\ EndEmitted(tasks[j].doc, tasks[j].chunks)
    /\ tasks' = [tasks EXCEPT ![j].promise = Resolved(tasks[j].chunks),
                              ![j].pdfs = Append(@, tasks[j].chunks),
                              ![j].i = @ + 1,
                              ![j].pc = "loop"]
    /\ UNCHANGED <<env, renderVars, authVars, webVars, orderVars, cpc, cresult>>

\* await Promise.all(pdfPromises), every task having returned
CreatedReturn ==
    /\ cpc = "running"
    /\ \A j \in 1..Len(tasks) : tasks[j].pc = "returned"
    /\ cpc' = "done"
    /\ cresult' = Resolved(<< >>)
    /\ UNCHANGED <<env, renderVars, authVars, webVars, orderVars, tasks>>

NextCreated ==
    \/ HandleOrderCreated
    \/ \E j \in 1..Len(tasks) : TaskCall(j)
    \/ \E j \in 1..Len(tasks) : TaskData(j)
    \/ \E j \in 1..Len(tasks) : TaskEnd(j)
    \/ CreatedReturn

SpecCreated == InitCreated /\ [][NextCreated]_vars

(***************************************************************************)
(* getDropboxAccessToken and clearCachedToken (dropbox-auth).  Times are   *)
(* in milliseconds.  Calls overlap: a call that refreshes waits for the    *)
(* answer of Dropbox while other calls run and the clock advances.         *)
(***************************************************************************)
\* the clock advances by a minute at a time, so many times
MaxMinutes == 6
\* the refresh requests sent in one behaviour
MaxRefreshes == 2

MINUTE_MS == 60 * 1000
\* 5 * 60 * 1000
REFRESH_BUFFER_MS == 5 * MINUTE_MS

\* data.expires_in, in seconds: shorter than the buffer, and longer
ExpiresIn == {240, 420}

\* the cached token taken as valid until it expires
CacheValidNoBuffer(cached, expiresAt, t) == cached # NoToken /\ expiresAt > t

\* cachedAccessToken && tokenExpiresAt > now + 5 * 60 * 1000
CacheValid(cached, expiresAt, t) ==
    cached # NoToken /\ expiresAt > t + REFRESH_BUFFER_MS

\* the refresh token with the app key and secret, and without; the manual
\* token alone; no token at all
AuthEnvs ==
    { RefreshOnlyEnv,
      [BaseEnv EXCEPT !.refreshToken = TRUE],
      BaseEnv,
      [BaseEnv EXCEPT !.accessToken = FALSE] }

InitAuth ==
    /\ env \in AuthEnvs
    /\ order = NoOrder
    /\ RenderIdle
    /\ OrderIdle
    /\ CreatedIdle
    /\ AuthIdle
    /\ WebIdle

TokenReturn(t, requested, hadToken, left) ==
    [kind |-> "token", token |-> t, requested |-> requested, hadToken |-> hadToken,
     left |-> left]
ErrorReturn(requested, hadToken, left) ==
    [kind |-> "error", token |-> NoToken, requested |-> requested,
     hadToken |-> hadToken, left |-> left]

\* getDropboxAccessToken, from the call to its return or to its fetch
GetDropboxAccessToken(p) ==
    /\ apc[p].pc = "idle"
    /\ LET hadToken == cachedAccessToken # NoToken
           left == tokenExpiresAt - now
       IN IF env.refreshToken
          THEN IF CacheValid(cachedAccessToken, tokenExpiresAt, now)
               THEN /\ returned' = [returned EXCEPT
                                       ![p] = TokenReturn(cachedAccessToken, FALSE,
                                                          hadToken, left)]
                    /\ UNCHANGED <<apc, refreshRequests>>
               ELSE IF ~env.appKey \/ ~env.appSecret \/ ~env.fetch
               THEN /\ returned' = [returned EXCEPT
                                       ![p] = ErrorReturn(FALSE, hadToken, left)]
                    /\ UNCHANGED <<apc, refreshRequests>>
               ELSE /\ refreshRequests < MaxRefreshes
                    /\ refreshRequests' = refreshRequests + 1
                    /\ apc' = [apc EXCEPT ![p] = [pc |-> "fetching",
                                                  request |-> refreshRequests + 1,
                                                  hadToken |-> hadToken,
                                                  left |-> left]]
                    /\ UNCHANGED returned
          ELSE /\ returned' = [returned EXCEPT
                                  ![p] = IF env.accessToken
                                         THEN TokenReturn(ManualToken, FALSE, hadToken, left)
                                         ELSE ErrorReturn(FALSE, hadToken, left)]
               /\ UNCHANGED <<apc, refreshRequests>>
    /\ UNCHANGED <<now, cachedAccessToken, tokenExpiresAt>>
    /\ UNCHANGED <<env, renderVars, orderVars, createdVars, webVars>>

\* an answer that is not ok also drops the recorded expiry
RefreshResponseDroppingExpiry(p) ==
    /\ apc[p].pc = "fetching"
    /\ \/ /\ returned' = [returned EXCEPT
                             ![p] = ErrorReturn(TRUE, apc[p].hadToken, apc[p].left)]
          /\ tokenExpiresAt' = 0
          /\ UNCHANGED cachedAccessToken
       \/ \E expires_in \in ExpiresIn :
             /\ cachedAccessToken' = RefreshedToken(apc[p].request)
             /\ tokenExpiresAt' = now + expires_in * 1000
             /\ returned' = [returned EXCEPT
                                ![p] = TokenReturn(RefreshedToken(apc[p].request), TRUE,
                                                   apc[p].hadToken, apc[p].left)]
    /\ apc' = [apc EXCEPT ![p] = NotCalling]
    /\ UNCHANGED <<now, refreshRequests>>
    /\ UNCHANGED <<env, renderVars, orderVars, createdVars, webVars>>

\* the answer to the refresh request of a call: not ok, and the call throws;
\* or a token and its lifetime, which the call stores and returns
RefreshResponse(p) ==
    /\ apc[p].pc = "fetching"
    /\ \/ /\ returned' = [returned EXCEPT
                             ![p] = ErrorReturn(TRUE, apc[p].hadToken, apc[p].left)]
          /\ UNCHANGED <<cachedAccessToken, tokenExpiresAt>>
       \/ \E expires_in \in ExpiresIn :
             /\ cachedAccessToken' = RefreshedToken(apc[p].request)
             /\ tokenExpiresAt' = now + expires_in * 1000
             /\ returned' = [returned EXCEPT
                                ![p] = TokenReturn(RefreshedToken(apc[p].request), TRUE,
                                                   apc[p].hadToken, apc[p].left)]
    /\ apc' = [apc EXCEPT ![p] = NotCalling]
    /\ UNCHANGED <<now, refreshRequests>>
    /\ UNCHANGED <<env, renderVars, orderVars, createdVars, webVars>>

ClearCachedToken ==
    /\ cachedAccessToken' = NoToken
    /\ tokenExpiresAt' = 0
    /\ UNCHANGED <<now, apc, refreshRequests, returned>>
    /\ UNCHANGED <<env, renderVars, orderVars, createdVars, webVars>>

\* the clock advances
Tick ==
    /\ now < MaxMinutes * MINUTE_MS
    /\ now' = now + MINUTE_MS
    /\ UNCHANGED <<cachedAccessToken, tokenExpiresAt, apc, refreshRequests, returned>>
    /\ UNCHANGED <<env, renderVars, orderVars, createdVars, webVars>>

NextAuth ==
    \/ \E p \in Callers : GetDropboxAccessToken(p)
    \/ \E p \in Callers : RefreshResponse(p)
    \/ ClearCachedToken
    \/ Tick

SpecAuth == InitAuth /\ [][NextAuth]_vars

(***************************************************************************)
(* The webhook handlers: the function of api/order-paid.ts and the POST    *)
(* route of the Express server.  One request is handled; its processing is *)
(* the handleOrderPaid call above.                                         *)
(***************************************************************************)
\* the fonts present or missing, and every secret
WebEnvs ==
    { [e EXCEPT !.webhookSecret = sec] :
        e \in {BaseEnv, [BaseEnv EXCEPT !.existing = {}]}, sec \in Secrets }

InitWebhook ==
    /\ env \in WebEnvs
    /\ order = NoOrder
    /\ RenderIdle
    /\ OrderIdle
    /\ CreatedIdle
    /\ AuthIdle
    /\ req \in Requests
    /\ wpc = "idle"
    /\ rawBody = << >>
    /\ responses = << >>

\* res.status(code).send(...) or res.status(code).json(...)
Respond(code) == responses' = Append(responses, code)

\* const order = JSON.parse(rawBody.toString('utf8')), and the call of
\* handleOrderPaid(order); a text that is not JSON is answered 500
ParseAndCall(body) ==
    IF body.json
    THEN /\ order' = body.order
         /\ wpc' = "call"
         /\ UNCHANGED responses
    ELSE /\ Respond(500)
         /\ wpc' = "done"
         /\ UNCHANGED order

\* handler of api/order-paid.ts, up to the raw body
ApiHandler ==
    /\ wpc = "idle"
    /\ req.handler = "api"
    /\ IF req.method # "POST"
       THEN /\ Respond(405)
            /\ wpc' = "done"
            /\ UNCHANGED rawBody
       ELSE IF req.bodyForm \in {"string", "buffer"}
       THEN /\ rawBody' = <<req.body>>
            /\ wpc' = "verify"
            /\ UNCHANGED responses
       ELSE /\ wpc' = "reading"
            /\ UNCHANGED <<rawBody, responses>>
    /\ UNCHANGED <<env, req, renderVars, orderVars, createdVars, authVars>>

\* the request stream ends, and the chunks read are the raw body; or it
\* fails, and the promise of the handler rejects
ApiBodyRead ==
    /\ wpc = "reading"
    /\ \E ok \in BOOLEAN :
         IF ok
         THEN rawBody' = <<req.body>> /\ wpc' = "verify"
         ELSE wpc' = "rejected" /\ UNCHANGED rawBody
    /\ UNCHANGED <<env, req, responses, renderVars, orderVars, createdVars, authVars>>

\* the secret, the signature, and the parsing of the order
ApiVerify ==
    /\ wpc = "verify"
    /\ LET secret == Trim(env.webhookSecret)
       IN IF secret = "" \/ ~verifyHmac(rawBody[1], secret, req.header)
          THEN /\ Respond(401)
               /\ wpc' = "done"
               /\ UNCHANGED order
          ELSE ParseAndCall(rawBody[1])
    /\ UNCHANGED <<env, req, rawBody, renderVars, createdVars, authVars, hpc,
                   labelConfigs, cfgIdx, copyIdx, renderCalls, pdfs, uploaded, dropbox,
                   hresult>>

\* the POST route of the Express server, up to the call of handleOrderPaid
ExpressHandler ==
    /\ wpc = "idle"
    /\ req.handler = "express"
    /\ LET verified == verifyShopifyHmac(req, env)
       IN IF verified = "throws"
          THEN /\ Respond(500)
               /\ wpc' = "done"
               /\ UNCHANGED <<order, rawBody>>
          ELSE IF verified = "false"
          THEN /\ Respond(401)
               /\ wpc' = "done"
               /\ UNCHANGED <<order, rawBody>>
          ELSE /\ rawBody' = <<req.body>>
               /\ ParseAndCall(req.body)
    /\ UNCHANGED <<env, req, renderVars, createdVars, authVars, hpc,
                   labelConfigs, cfgIdx, copyIdx, renderCalls, pdfs, uploaded, dropbox,
                   hresult>>

\* const result = await handleOrderPaid(order)
Process ==
    /\ wpc = "call"
    /\ NextOrder

\* res.status(200).json({ ok: true, ... }), or the catch: res.status(500)
ProcessReturn ==
    /\ wpc = "call"
    /\ hpc = "done"
    /\ Respond(IF hresult.state = "resolved" THEN 200 ELSE 500)
    /\ wpc' = "done"
    /\ UNCHANGED <<env, req, rawBody, renderVars, orderVars, createdVars, authVars>>

NextWebhook ==
    \/ ApiHandler
    \/ ApiBodyRead
    \/ ApiVerify
    \/ ExpressHandler
    \/ Process
    \/ ProcessReturn

SpecWebhook == InitWebhook /\ [][NextWebhook]_vars

(***************************************************************************)
(* Properties of the renderer.                                             *)
(***************************************************************************)
\* the final measurements of the call have been taken
Measured == layout.finalSize > 0

TextAreaCenterY == area.y + TEXT_HEIGHT_PT \div 2

\* the text is too wide at the height-maximizing candidate size
OverWideAtCandidate ==
    measureWidth(font.fontToUse, text, CandidateSize) > TEXT_WIDTH_PT

\* C1: for every non-empty text the final measured width is at most the
\* text-area width and the final visible height at most the text-area height
\* (to within less than one point), however small the size has to become.
C1_FitsWidthAndHeight ==
    (Measured /\ text.n > 0) =>
        /\ layout.finalWidth < TEXT_WIDTH_PT + 100
        /\ layout.finalVisibleHeight < TEXT_HEIGHT_PT + 100

\* C2: when the text fits the width at the candidate size, no iteration of
\* the sizing loop changes the size and the final size is the candidate size.
C2_CandidateSizeKept ==
    (pc # "idle" /\ promise.state # "rejected" /\ ~OverWideAtCandidate) =>
        /\ optimalSize = (MmToPt(54) * 100) \div 73
        /\ Measured => layout.finalSize = (MmToPt(54) * 100) \div 73

C2_Witness ==
    /\ Measured
    /\ text.n > 0
    /\ ~OverWideAtCandidate
    /\ iter = SIZING_ITERATIONS
    /\ layout.finalSize = CandidateSize

\* C3: when the text is too wide at the candidate size, the final measured
\* width equals the text-area width (to within less than one point).
C3_WidthBinds ==
    (Measured /\ text.n > 0 /\ OverWideAtCandidate) =>
        Abs(layout.finalWidth - TEXT_WIDTH_PT) < 100

\* C4: the font size is within 20..800 pt after every iteration of the
\* sizing loop, and so is the final size used for drawing.
C4_SizeInRange ==
    /\ (pc = "sizing" /\ iter >= 1) => (optimalSize >= 20 * 100 /\ optimalSize <= 800 * 100)
    /\ Measured => (layout.finalSize >= 20 * 100 /\ layout.finalSize <= 800 * 100)
    /\ \A k \in 1..Len(doc.draws) :
          doc.draws[k].size >= 20 * 100 /\ doc.draws[k].size <= 800 * 100

C4_Witness ==
    /\ Len(doc.draws) = 1
    /\ doc.draws[1].size = 20 * 100
    /\ text.n > 0
    /\ (CandidateSize * TEXT_WIDTH_PT) \div measureWidth(font.fontToUse, text, CandidateSize)
           < 20 * 100

\* C5: the x of the draw call is textAreaX + (textAreaWidth - finalWidth) / 2
\* with finalWidth measured at the final size, so that the gap left of the
\* text equals the gap right of it (up to the rounding of the halves).
C5_HorizontallyCentered ==
    \A k \in 1..Len(doc.draws) :
        LET d == doc.draws[k]
            finalWidth == measureWidth(d.font, d.text, d.size)
            leftGap == d.x - area.x
            rightGap == (area.x + MmToPt(260)) - (d.x + finalWidth)
        IN /\ d.size = optimalSize
           /\ Abs(leftGap - rightGap) <= 1
           /\ Abs(2 * d.x - (2 * area.x + MmToPt(260) - finalWidth)) <= 1

C5_Witness ==
    /\ Len(doc.draws) = 1
    /\ text.n > 0
    /\ doc.draws[1].size # CandidateSize
    /\ doc.draws[1].x > area.x

\* C6 as stated: the y of the draw call is the text-area vertical centre
\* plus the measured visible height times an ascent fraction (a positive
\* fraction of the height, here any number of thousandths up to 1).
C6_BaselineFromVisibleHeight ==
    \A k \in 1..Len(doc.draws) :
        \E f \in 1..1000 :
            Abs(doc.draws[k].y
                  - (TextAreaCenterY + (layout.finalVisibleHeight * f) \div 1000)) <= 1

\* C6 as amended: the y of the draw call is the text-area vertical centre
\* minus 0.35 times the measured text height (the height of the text line at
\* the final size, not the visible height), kept within textAreaY + 2pt and
\* textAreaY + textAreaHeight - measuredTextHeight + 2pt with the lower limit
\* winning; the factor 0.35 is the same for the primary and the fallback font.
C6_BaselineFromTextHeight ==
    \A k \in 1..Len(doc.draws) :
        LET d == doc.draws[k]
            h == heightOfString(d.font, d.text, d.size)
            lo == area.y + 2 * 100
            hi == area.y + MmToPt(54) - h + 2 * 100
            base == TextAreaCenterY - (h * 35) \div 100
        IN d.y = (IF Min(base, hi) >= lo THEN Min(base, hi) ELSE lo)

C6_Witness ==
    /\ Len(doc.draws) = 1
    /\ doc.draws[1].font = FallbackFont
    /\ text.n > 0
    /\ doc.draws[1].y = layout.baselineY
    /\ doc.draws[1].y > area.y + 2 * 100
    /\ doc.draws[1].y < area.y + MmToPt(54) - layout.measuredTextHeight + 2 * 100

FontLoadFailed == pc # "idle" /\ (font.impactPath = NoPath \/ font.registerThrew)

\* C8: if no candidate font path exists, or registering the font throws, the
\* call still resolves with a buffer: a warning is logged, everything drawn
\* uses the fallback font, and the promise is not rejected.
C8_FallbackFontOnLoadFailure ==
    FontLoadFailed =>
        /\ font.fontToUse = FallbackFont
        /\ Len(warnings) >= 1
        /\ promise.state # "rejected"
        /\ \A k \in 1..Len(doc.draws) : doc.draws[k].font = FallbackFont
        /\ pc = "done" =>
              /\ promise.state = "resolved"
              /\ Len(promise.value) = 3
              /\ Len(promise.value[2].draws) = 1
              /\ promise.value[2].draws[1].font = FallbackFont

C8_Witness ==
    /\ FontLoadFailed
    /\ font.impactPath = NoPath
    /\ pc = "done"
    /\ promise.state = "resolved"

\* C9: every document has exactly one page of the fixed size: while the text
\* is drawn the page-adding operation is suppressed, whatever the text and
\* the size, and afterwards the operation is the original one again.
C9_SinglePage ==
    /\ doc.pages = 1
    /\ doc.size = <<MmToPt(270), MmToPt(66)>>
    /\ pc = "draw" => doc.addPage = "noop"
    /\ pc \in {"end", "flush"} => doc.addPage = "original"
    /\ (pc = "done" /\ promise.state = "resolved") =>
          /\ doc.addPage = "original"
          /\ promise.value[1].size = <<MmToPt(270), MmToPt(66)>>
          /\ promise.value[2].pages = 1

C9_Witness ==
    /\ pc = "done"
    /\ promise.state = "resolved"
    /\ doc.breakRequests = MaxPageBreaks
    /\ doc.pages = 1

\* C29: the y passed to the draw call lies within the safety bounds,
\* textAreaY + 2pt <= y <= textAreaY + textAreaHeight - measuredTextHeight + 2pt,
\* for every text and final size.
C29_BaselineWithinSafetyBounds ==
    \A k \in 1..Len(doc.draws) :
        LET d == doc.draws[k]
            h == heightOfString(d.font, d.text, d.size)
        IN /\ area.y + 2 * 100 <= d.y
           /\ d.y <= area.y + MmToPt(54) - h + 2 * 100

(***************************************************************************)
(* Properties of handleOrderPaid.                                          *)
(***************************************************************************)
\* the copies to render, as <<configuration index, copy index>>: the
\* configurations in order, and for each the copy indices 1..quantity
RECURSIVE ExpectedCopies(_, _)
ExpectedCopies(configs, j) ==
    IF j > Len(configs) THEN << >>
    ELSE [i \in 1..configs[j].quantity |-> <<j, i>>] \o ExpectedCopies(configs, j + 1)

\* every copy has been rendered
AllRendered ==
    \/ hpc \in {"upload", "folder", "files"}
    \/ /\ hpc = "done"
       /\ Len(labelConfigs) > 0
       /\ (hresult.state = "resolved" \/ hresult.value # <<"font">>)

\* C10: for each label configuration handleOrderPaid makes exactly `quantity`
\* render calls and keeps their buffers, in configuration order then copy
\* order, each with the filename label-<configuration id>-<copy index>.pdf,
\* the copy index running from 1 to the quantity.
C10_QuantityCopiesInOrder ==
    LET expected == ExpectedCopies(labelConfigs, 1)
    IN /\ Len(pdfs) <= Len(expected)
       /\ Len(renderCalls) <= Len(expected)
       /\ Len(renderCalls) >= Len(pdfs)
       /\ Len(renderCalls) <= Len(pdfs) + 1
       /\ \A j \in 1..Len(renderCalls) : renderCalls[j] = expected[j]
       /\ \A j \in 1..Len(pdfs) :
             LET c == labelConfigs[expected[j][1]]
                 id == IF c.configId = "" THEN "cfg" ELSE c.configId
             IN /\ pdfs[j].filename = <<"label-", id, "-", expected[j][2], ".pdf">>
                /\ pdfs[j].buffer = generateLabelPDF(c, env, 0).value
       /\ AllRendered => (Len(pdfs) = Len(expected) /\ Len(renderCalls) = Len(expected))

C10_Witness ==
    /\ hpc = "done"
    /\ hresult.state = "resolved"
    /\ Len(labelConfigs) = 2
    /\ labelConfigs[1].quantity = 2
    /\ labelConfigs[2].quantity = 2
    /\ labelConfigs[1].configId # labelConfigs[2].configId
    /\ Len(pdfs) = 4
    /\ Len(hresult.value.files) = 4

\* String.prototype.trim leaves nothing of the text
IsBlank(t) == t.n = 0 \/ t.ch = " "

\* the texts of the order's labels (the line items that carry label
\* attributes), as the attributes give them
LabelTexts ==
    { ConfigOfLineItem(order.line_items[j]).text :
        j \in {i \in 1..Len(order.line_items) : Len(order.line_items[i].attrs) > 0} }

\* C11: a label whose text is missing, empty or empty after trimming is
\* rejected before any rendering starts: no render call is made with such a
\* text, and the caller of the handler receives a validation failure.
C11_BlankTextRejected ==
    /\ \A j \in 1..Len(renderCalls) : ~IsBlank(labelConfigs[renderCalls[j][1]].text)
    /\ (hpc = "done" /\ \E t \in LabelTexts : IsBlank(t)) =>
          (hresult.state = "rejected" /\ hresult.value = <<"validation">>)

\* a render call of the handler was rejected
RenderFailed == Len(renderCalls) > Len(pdfs)

\* C12: a failure while rendering one label is fatal only for that render:
\* the caller receives an error that carries the configuration id of the
\* failed label, and every other copy of the order is still rendered and
\* handed to the upload.
C12_RenderFailureIsolated ==
    (hpc = "done" /\ RenderFailed) =>
        LET expected == ExpectedCopies(labelConfigs, 1)
            failedCfg == labelConfigs[renderCalls[Len(renderCalls)][1]]
        IN /\ Len(renderCalls) = Len(expected)
           /\ Len(pdfs) = Len(expected) - 1
           /\ (Len(pdfs) > 0 /\ env.accessToken /\ env.fetch) => dropbox.folderCalls > 0
           /\ hresult.state = "rejected"
           /\ Len(hresult.value) = 2
           /\ hresult.value[2] = failedCfg.configId

\* the promise of the call and the document agree: a resolved promise holds
\* the whole output of the ended document, a rejected one belongs to a
\* document that was never ended, and until then the promise is pending
SettledWhole ==
    /\ promise.state = "pending" <=> pc # "done"
    /\ promise.state = "resolved" =>
          /\ doc.ended
          /\ promise.value = chunks
          /\ promise.value = DocOutput(doc)
          /\ Len(promise.value[2].draws) = 1
    /\ promise.state = "rejected" => (~doc.ended /\ chunks = << >>)

\* C13: each generateLabelPDF call settles exactly once: it resolves only
\* after the document's end event, with all the chunks emitted, in emission
\* order, or it rejects; the buffer of a partially written document is never
\* returned, and a settled promise never changes.
C13_SettlesOnceWithWholeDocument ==
    /\ []SettledWhole
    /\ [][promise.state # "pending" => promise' = promise]_vars

C13_Witness ==
    /\ pc = "done"
    /\ promise.state = "resolved"
    /\ text.n > 0
    /\ Len(chunks) = 3
    /\ promise.value = chunks

\* what the call in progress has computed so far equals what the call before
\* it computed: page size, font, and once measured the final size, x and y
SameGeometry ==
    /\ doc.size = previous.size
    /\ font.fontToUse = previous.font
    /\ Measured =>
          /\ layout.finalSize = previous.layout.finalSize
          /\ layout.textX = previous.layout.textX
          /\ layout.safeBaselineY = previous.layout.safeBaselineY
    /\ \A k \in 1..Len(doc.draws) :
          /\ doc.draws[k].size = previous.layout.finalSize
          /\ doc.draws[k].x = previous.layout.textX
          /\ doc.draws[k].y = previous.layout.safeBaselineY
    /\ pc = "done" => (promise.state = previous.state /\ layout = previous.layout)

\* C14: rendering is deterministic: a second generateLabelPDF call with the
\* configuration and the font state of the first computes the same page
\* size, font, final font size, x and baseline y.
C14_SameInputsSameGeometry ==
    (previous.made /\ cfg = previous.cfg) => SameGeometry

C14_Witness ==
    /\ previous.made
    /\ cfg = previous.cfg
    /\ pc = "done"
    /\ promise.state = "resolved"
    /\ text.n > 0
    /\ layout.finalSize < CandidateSize
    /\ layout.finalSize = previous.layout.finalSize

\* C16: the solved size and the placement do not depend on the font size
\* of the configuration: a call whose configuration differs from that of
\* the call before it in fontSizePt only computes the same final font
\* size, x and baseline y.
C16_FontSizeHintIgnored ==
    (/\ previous.made
     /\ cfg.fontSizePt # previous.cfg.fontSizePt
     /\ [cfg EXCEPT !.fontSizePt = previous.cfg.fontSizePt] = previous.cfg
     /\ Measured) =>
        /\ layout.finalSize = previous.layout.finalSize
        /\ layout.textX = previous.layout.textX
        /\ layout.safeBaselineY = previous.layout.safeBaselineY

C16_Witness ==
    /\ previous.made
    /\ previous.cfg.fontSizePt = 40
    /\ cfg.fontSizePt = 156
    /\ cfg.text = previous.cfg.text
    /\ text.n > 0
    /\ pc = "done"
    /\ promise.state = "resolved"
    /\ layout.finalSize = CandidateSize

\* C15: concurrent renders do not interfere: under any interleaving of the
\* render tasks of handleOrderCreated, the geometry and the output of every
\* render equal those of the same render run alone: each document holds the
\* one draw of its own configuration, each chunk list holds chunks of its own
\* document only, in order, and every buffer is the alone-run buffer.
C15_ConcurrentRendersIsolated ==
    \A j \in 1..Len(tasks) :
        LET t == tasks[j]
            alone == generateLabelPDF(t.cfg, env, 0)
        IN /\ Len(t.pdfs) = t.i
           /\ t.pc = "thrown" <=> t.promise.state = "rejected"
           /\ t.promise.state = "rejected" => alone.state = "rejected"
           /\ (t.pc = "flush" \/ Len(t.pdfs) > 0) => alone.state = "resolved"
           /\ t.pc = "flush" =>
                 /\ t.doc.size = alone.value[1].size
                 /\ t.doc.pages = alone.value[2].pages
                 /\ t.doc.draws = alone.value[2].draws
                 /\ Len(t.chunks) <= Len(alone.value)
                 /\ \A m \in 1..Len(t.chunks) : t.chunks[m] = alone.value[m]
           /\ \A m \in 1..Len(t.pdfs) : t.pdfs[m] = alone.value

C15_Witness ==
    /\ Len(tasks) = 2
    /\ tasks[1].cfg.text # tasks[2].cfg.text
    /\ tasks[1].pc = "flush"
    /\ tasks[2].pc = "flush"
    /\ tasks[1].i = 1
    /\ Len(tasks[1].chunks) = 1
    /\ Len(tasks[2].chunks) = 2

\* the digits of an order number, its other characters dropped
OrderDigits(name) ==
    IF name = "#1001" THEN <<"1", "0", "0", "1">> ELSE << >>

\* the draw calls of the j-th page handed to the upload, and its configuration
DrawsOfPdf(j) == pdfs[j].buffer[2].draws
ConfigOfPdf(j) == labelConfigs[ExpectedCopies(labelConfigs, 1)[j][1]]

C23_RendersBeforeDropbox ==
    LET expected == ExpectedCopies(labelConfigs, 1)
    IN /\ (dropbox # NoDropbox \/ Len(uploaded) > 0 \/ hpc \in {"folder", "files"}) =>
             /\ Len(renderCalls) = Len(expected)
             /\ Len(pdfs) = Len(expected)
       /\ Len(renderCalls) > Len(pdfs) =>
             /\ hpc = "done"
             /\ hresult.state = "rejected"
             /\ dropbox.folderCalls = 0
             /\ dropbox.folders = {}
             /\ Len(dropbox.files) = 0
             /\ Len(uploaded) = 0

C23_Witness ==
    /\ hpc = "done"
    /\ Len(labelConfigs) = 2
    /\ Len(renderCalls) = 1
    /\ Len(pdfs) = 0
    /\ hresult = Rejected("font")
    /\ env.accessToken /\ env.fetch
    /\ dropbox = NoDropbox

\* the paths of the files handed to uploadPDFsToDropbox, in input order
PathsOfPdfs ==
    [j \in 1..Len(pdfs) |-> <<FolderPath(order, env), "/", pdfs[j].filename>>]

\* C24: uploadPDFsToDropbox uploads the files one at a time in input order,
\* each at most once, and the handler returns their paths in that order only
\* if every upload succeeded; if the k-th upload fails, the first k-1 files
\* stay stored in Dropbox, no later file is attempted, and handleOrderPaid
\* rejects without a file list.
C24_UploadsInOrderNoRollback ==
    LET calls == dropbox.uploadCalls
        stored == dropbox.files
    IN /\ Len(calls) <= Len(pdfs)
       /\ \A j \in 1..Len(calls) : calls[j] = PathsOfPdfs[j]
       /\ Len(stored) \in {Len(calls) - 1, Len(calls)}
       /\ \A j \in 1..Len(stored) :
             /\ stored[j].path = PathsOfPdfs[j]
             /\ stored[j].contents = pdfs[j].buffer
       /\ (hresult.state = "resolved" /\ Len(labelConfigs) > 0) =>
             /\ hresult.value.files = PathsOfPdfs
             /\ Len(stored) = Len(pdfs)
       /\ Len(stored) < Len(calls) =>
             /\ hpc = "done"
             /\ hresult.state = "rejected"

C24_Witness ==
    /\ hpc = "done"
    /\ hresult.state = "rejected"
    /\ Len(pdfs) = 4
    /\ Len(dropbox.uploadCalls) = 3
    /\ Len(dropbox.files) = 2
    /\ dropbox.files[2].path = PathsOfPdfs[2]

\* C25: uploadPDFsToDropbox attempts the folder creation exactly once, and
\* before any file upload; whatever its outcome (created, already there, or
\* any other error), the upload goes on: the first file upload is attempted.
C25_FolderOnceNeverAborts ==
    /\ dropbox.folderCalls <= 1
    /\ (Len(dropbox.uploadCalls) > 0 \/ hpc = "files") => dropbox.folderCalls = 1
    /\ dropbox.folderCalls = 1 => hpc \in {"files", "done"}
    /\ (hpc = "done" /\ dropbox.folderCalls = 1) => Len(dropbox.uploadCalls) >= 1

C25_Witness ==
    /\ hpc = "done"
    /\ dropbox.folderCalls = 1
    /\ dropbox.folders = {}
    /\ dropbox.warnings = 1
    /\ hresult.state = "resolved"
    /\ Len(dropbox.files) = 2
    /\ Len(hresult.value.files) = 2

\* the order has no line items, or none of them has a label text
NoLabelInOrder ==
    \/ ~order.hasLineItems
    \/ \A j \in 1..Len(order.line_items) :
          \A a \in 1..Len(order.line_items[j].attrs) :
             LET attr == order.line_items[j].attrs[a]
             IN attr.key = "label_text" => attr.text.n = 0

\* C26: when the order yields no label configuration, handleOrderPaid
\* returns the folder path of the order with an empty file list, whatever
\* the environment (with or without an access token), and has made no
\* render call, no token request, no folder creation and no upload.
C26_NoLabelsNoEffects ==
    (hpc = "done" /\ NoLabelInOrder) =>
        /\ hresult.state = "resolved"
        /\ hresult.value.folderPath = <<"/Labels", "2024-05-01", "1001">>
        /\ hresult.value.files = << >>
        /\ renderCalls = << >>
        /\ pdfs = << >>
        /\ dropbox.folderCalls = 0
        /\ dropbox.uploadCalls = << >>
        /\ dropbox.files = << >>
        /\ refreshRequests = 0

C26_Witness ==
    /\ hpc = "done"
    /\ NoLabelInOrder
    /\ order.hasLineItems
    /\ Len(order.line_items) = 2
    /\ Len(order.line_items[2].attrs) = 2
    /\ ~env.accessToken
    /\ hresult.state = "resolved"

(***************************************************************************)
(* Properties of the Dropbox access tokens.                                *)
(***************************************************************************)
\* C19: with DROPBOX_REFRESH_TOKEN, DROPBOX_APP_KEY and DROPBOX_APP_SECRET
\* set and DROPBOX_ACCESS_TOKEN removed, a paid order whose labels were all
\* rendered goes on to the upload: the handler does not stop for want of a
\* manual access token, and the Dropbox folder of the order is requested.
C19_UploadsWithoutManualToken ==
    (/\ hpc = "done"
     /\ env.refreshToken /\ env.appKey /\ env.appSecret /\ env.fetch
     /\ ~env.accessToken
     /\ Len(pdfs) > 0
     /\ ~RenderFailed) =>
        /\ hresult # Rejected("DROPBOX_ACCESS_TOKEN not set")
        /\ dropbox.folderCalls > 0

\* C20: in refresh-token mode, whatever calls and clock advances came
\* before, a call returns a token without having sent a refresh request
\* only when the cache held a token whose recorded expiry was more than 5
\* minutes after the time of the call; every other call that returns a
\* token has sent a refresh request first and returns the token of its own
\* request.
C20_CachedOnlyWithFiveMinutesLeft ==
    env.refreshToken =>
        \A p \in Callers :
            LET r == returned[p]
            IN r.kind = "token" =>
                  /\ ~r.requested <=> (r.hadToken /\ r.left > 5 * 60 * 1000)
                  /\ r.requested => (\E n \in 1..refreshRequests : r.token = <<"refreshed", n>>)
                  /\ r.token # << >>

C20_Witness ==
    /\ env.refreshToken
    /\ returned["a"].kind = "token"
    /\ ~returned["a"].requested
    /\ returned["a"].left = 6 * 60 * 1000
    /\ returned["b"].kind = "token"
    /\ returned["b"].requested
    /\ returned["b"].hadToken
    /\ returned["b"].left = 5 * 60 * 1000
    /\ returned["a"].token # returned["b"].token

\* C27: a call that ends with an error (app key or secret missing, or an
\* answer of the token endpoint that is not ok) leaves cachedAccessToken and
\* tokenExpiresAt as they were; a step of getDropboxAccessToken that changes
\* either of them is the successful answer to one refresh request, which
\* stores the token of that answer and the expiry computed from its
\* lifetime in the same step (the only other writer, clearCachedToken,
\* resets both).
C27_CachePairUpdatedTogether ==
    [][ /\ \A p \in Callers :
              (returned'[p] # returned[p] /\ returned'[p].kind = "error") =>
                  (cachedAccessToken' = cachedAccessToken /\ tokenExpiresAt' = tokenExpiresAt)
        /\ (cachedAccessToken' # cachedAccessToken \/ tokenExpiresAt' # tokenExpiresAt) =>
              \/ /\ returned' = returned
                 /\ cachedAccessToken' = << >>
                 /\ tokenExpiresAt' = 0
              \/ \E p \in Callers :
                    /\ apc[p].pc = "fetching"
                    /\ returned'[p].kind = "token"
                    /\ returned'[p].requested
                    /\ cachedAccessToken' = <<"refreshed", apc[p].request>>
                    /\ returned'[p].token = cachedAccessToken'
                    /\ tokenExpiresAt' > now
                    /\ (tokenExpiresAt' - now) \div 1000 \in ExpiresIn ]_vars

C27_Witness ==
    /\ env.refreshToken
    /\ returned["a"].kind = "error"
    /\ returned["a"].requested
    /\ returned["a"].hadToken
    /\ apc["a"].pc = "idle"
    /\ apc["b"].pc = "idle"
    /\ refreshRequests = 2
    /\ cachedAccessToken = <<"refreshed", 1>>
    /\ tokenExpiresAt = 420 * 1000

\* C28: when getDropboxAccessToken calls overlap while the cache is empty or
\* expired, one refresh request serves them all: two calls are never waiting
\* for the answers to two different requests.
C28_OneRefreshForOverlappingCalls ==
    \A p, q \in Callers :
        (apc[p].pc = "fetching" /\ apc[q].pc = "fetching") =>
            apc[p].request = apc[q].request

(***************************************************************************)
(* Properties of the webhook handlers.                                     *)
(***************************************************************************)
\* the key a handler computes the digest with: the configured secret, which
\* api/order-paid.ts strips of surrounding white space
KeyOf(r, e) ==
    IF r.handler = "express" THEN e.webhookSecret
    ELSE IF e.webhookSecret = " shpss " THEN "shpss"
    ELSE IF e.webhookSecret = " " THEN ""
    ELSE e.webhookSecret

\* the signature header is the HMAC-SHA256 of the request body under the
\* non-empty secret of the handler
SignatureMatches ==
    /\ KeyOf(req, env) # ""
    /\ req.header.len = 44
    /\ req.header.key = KeyOf(req, env)
    /\ req.header.msg = req.body

\* C21: in both webhook handlers the order is parsed and handleOrderPaid is
\* called only for a request whose signature header equals the HMAC-SHA256
\* of the raw body under the configured, non-empty secret; with an empty
\* secret, a missing header or another signature nothing is parsed or
\* processed.
C21_ProcessedOnlyWhenSigned ==
    (wpc = "call" \/ hpc # "idle" \/ order # NoOrder \/ Len(renderCalls) > 0
       \/ dropbox # NoDropbox) =>
        /\ SignatureMatches
        /\ req.method = "POST"
        /\ rawBody = <<req.body>>
        /\ order = req.body.order

C21_Witness ==
    /\ wpc = "done"
    /\ responses = <<200>>
    /\ req.handler = "api"
    /\ env.webhookSecret = " shpss "
    /\ req.bodyForm = "stream"
    /\ hpc = "done"
    /\ Len(dropbox.files) = 2

\* C22: every request gets exactly one response; a request with a wrong
\* signature of any length is answered 401, never 500; 405 is sent for a
\* method other than POST before the body is read, 200 only after
\* handleOrderPaid returned, and 500 only when the parsing or the processing
\* of a verified order failed.
C22_OneResponsePerRequest ==
    /\ Len(responses) <= 1
    /\ wpc \in {"done", "rejected"} => Len(responses) = 1
    /\ (wpc = "done" /\ req.method = "POST" /\ ~SignatureMatches) => responses = <<401>>
    /\ responses = <<405>> => (req.method # "POST" /\ rawBody = << >>)
    /\ responses = <<200>> => (hpc = "done" /\ hresult.state = "resolved")
    /\ responses = <<500>> =>
          /\ SignatureMatches
          /\ \/ ~req.body.json
             \/ hpc = "done" /\ hresult.state = "rejected"
====
